---- MODULE Spec2Model ----
(***************************************************************************)
(* Pothole report lifecycle of routes/potholeRoutes.js and                 *)
(* models/Pothole.js: the express handlers (register, list, get, update    *)
(* status, delete), the multer upload in front of register, the mongoose   *)
(* collection they share and the uploads directory.                        *)
(*                                                                         *)
(* Every handler is async: it runs to its next await, and other requests   *)
(* run while it waits.  A request slot holds one request in flight; its pc *)
(* is the await it is parked on.  The collection (db), the uploads         *)
(* directory (files), the wall clock (now) and the ObjectId generator      *)
(* (nextId) are shared.                                                    *)
(*                                                                         *)
(* Three specifications share the state.  Spec is the lifecycle: register, *)
(* get, update status and delete, interleaved in the request slots.        *)
(* ListSpec is the listing query (GET /list) over the collections the      *)
(* lifecycle leaves, with no writer.  FilterSpec is the register route fed *)
(* image parts of many declared types and file names.                      *)
(*                                                                         *)
(* Numbers are held in tenths (1.2 is 12): TLC has no reals.  Strings that *)
(* the code inspects character by character (file names, MIME types) are   *)
(* sequences of one-character strings.                                     *)
(***************************************************************************)
EXTENDS Integers, Sequences, FiniteSets, TLC

\* ------------------------------------------------------------- bounds
\* The wall clock is read as a value of 0..MaxClock.
MaxClock == 1
\* At most MaxId reports are ever created; ObjectIds are 1..MaxId.
MaxId == 2
\* Requests in flight at once.
MaxReq == 2
\* Math.round(Math.random() * 1e9) is drawn from 0..MaxRand.
MaxRand == 1
\* Requests accepted in one run.
MaxOps == 3

Reqs == 1..MaxReq
ObjectIds == 1..MaxId
\* What a caller may put in :id; 0 stands for a string that is no ObjectId.
ReqIds == 0..MaxId
IsObjectId(id) == id \in ObjectIds

\* ------------------------------------------------------------- strings
Max(S) == CHOOSE x \in S : \A y \in S : y <= x

LowerChar(c) ==
  CASE c = "J" -> "j" [] c = "P" -> "p" [] c = "G" -> "g"
    [] c = "N" -> "n" [] c = "E" -> "e" [] OTHER -> c

ToLowerCase(s) == [i \in 1..Len(s) |-> LowerChar(s[i])]

\* A regular expression that is a plain word matches anywhere in the string.
Contains(s, word) ==
  \E i \in 1..(Len(s) - Len(word) + 1) : SubSeq(s, i, i + Len(word) - 1) = word

\* /jpeg|jpg|png/.test(s)
FiletypesTest(s) ==
  \/ Contains(s, <<"j", "p", "e", "g">>)
  \/ Contains(s, <<"j", "p", "g">>)
  \/ Contains(s, <<"p", "n", "g">>)

\* path.extname of a bare file name: from the last dot on, and empty when
\* there is no dot or the only dot leads the name.
Extname(name) ==
  LET dots == {i \in 1..Len(name) : name[i] = "."}
  IN  IF dots = {} \/ Max(dots) = 1 THEN <<>> ELSE SubSeq(name, Max(dots), Len(name))

\* ------------------------------------------------------------- uploads
FileSizeLimit == 5 * 1024 * 1024

PngFile ==
  [originalname |-> <<"a", ".", "p", "n", "g">>,
   mimetype |-> <<"i", "m", "a", "g", "e", "/", "p", "n", "g">>,
   size |-> 1024]
GifFile ==
  [originalname |-> <<"c", ".", "g", "i", "f">>,
   mimetype |-> <<"i", "m", "a", "g", "e", "/", "g", "i", "f">>,
   size |-> 1024]
BigFile ==
  [originalname |-> <<"a", ".", "p", "n", "g">>,
   mimetype |-> <<"i", "m", "a", "g", "e", "/", "p", "n", "g">>,
   size |-> 6 * 1024 * 1024]

\* The image parts a register request may carry.
UploadFiles == {PngFile, GifFile, BigFile}

\* upload.fileFilter
FileFilter(file) ==
  LET mimetype == FiletypesTest(file.mimetype)
      extname == FiletypesTest(ToLowerCase(Extname(file.originalname)))
  IN  mimetype /\ extname

\* A limit that is never reached.
TooLargeNever(file) == FALSE

\* limits.fileSize
TooLarge(file) == file.size > FileSizeLimit

\* storage.filename: "pothole-" + Date.now() + "-" + random + extname
Filename(ts, rnd, file) == [ts |-> ts, rnd |-> rnd, ext |-> Extname(file.originalname)]

NoFilename == [ts |-> 0, rnd |-> 0, ext |-> <<>>]

\* `/public/uploads/${req.file.filename}`
ImageRef(filename) == [dir |-> "/public/uploads", name |-> filename]

\* path.join(__dirname, "..", pothole.image): the file of the uploads
\* directory that the reference names.
ImagePath(image) == image.name

\* ------------------------------------------------------------- users
Users == {"user1", "admin1"}
Role(u) == IF u = "admin1" THEN "admin" ELSE "user"
\* middleware/auth isAdmin
IsAdmin(u) == Role(u) = "admin"

\* ------------------------------------------------------------- submissions
\* parseFloat, on the raw strings the model submits: the longest numeric
\* prefix, NaN when there is none (also for a missing field).
ParseFloat(raw) ==
  CASE raw = "1.2" -> [nan |-> FALSE, val |-> 12]
    [] raw = "72.5" -> [nan |-> FALSE, val |-> 725]
    [] raw = "23.1" -> [nan |-> FALSE, val |-> 231]
    [] raw = "0.3" -> [nan |-> FALSE, val |-> 3]
    [] OTHER -> [nan |-> TRUE, val |-> 0]

SubA ==
  [distance |-> "1.2", longitude |-> "72.5", latitude |-> "23.1",
   vehicle_name |-> "truck", vehicle_ground_level |-> "0.3"]
\* distance is no number
SubNaN ==
  [distance |-> "abc", longitude |-> "72.5", latitude |-> "23.1",
   vehicle_name |-> "truck", vehicle_ground_level |-> "0.3"]
\* vehicle_name is missing
SubNoName ==
  [distance |-> "1.2", longitude |-> "72.5", latitude |-> "23.1",
   vehicle_name |-> "", vehicle_ground_level |-> "0.3"]

Submissions == {SubA, SubNaN, SubNoName}

\* ------------------------------------------------------------- schema
\* potholeSchema.pothole_status.enum
StatusEnum == {"pending", "inprocess", "completed"}
\* A default that is no member of the enum.
DefaultStatusTypo == "Pending"

\* potholeSchema.pothole_status.default
DefaultStatus == "pending"
\* the list of the update route's own check
AllowedStatuses == {"pending", "inprocess", "completed"}
\* what a caller may send as pothole_status
ReqStatuses == {"pending", "inprocess", "completed", "archived"}

\* The document Pothole.create builds from the handler's object: the parsed
\* numbers, the defaults of the schema (status, and both dates from
\* Date.now at construction).
NewDoc(id, sub, filename, actor, t) ==
  [_id |-> id,
   distance |-> ParseFloat(sub.distance).val,
   image |-> ImageRef(filename),
   gps |-> [longitude |-> ParseFloat(sub.longitude).val,
            latitude |-> ParseFloat(sub.latitude).val],
   vehicle_name |-> sub.vehicle_name,
   vehicle_ground_level |-> ParseFloat(sub.vehicle_ground_level).val,
   pothole_status |-> DefaultStatus,
   reportedBy |-> actor,
   createdAt |-> t,
   updatedAt |-> t]

\* Schema validation of a new document: a Number path does not take NaN, a
\* required String path does not take an empty or missing value.
SchemaValid(sub) ==
  /\ ~ParseFloat(sub.distance).nan
  /\ ~ParseFloat(sub.longitude).nan
  /\ ~ParseFloat(sub.latitude).nan
  /\ ~ParseFloat(sub.vehicle_ground_level).nan
  /\ sub.vehicle_name # ""

\* A hook that refreshes the wrong date.
PreSaveCreatedAt(doc, t) == [doc EXCEPT !.createdAt = t]

\* potholeSchema.pre("save"): this.updatedAt = Date.now()
PreSave(doc, t) == [doc EXCEPT !.updatedAt = t]

\* An update that treats completed as final.
ApplyUpdateTerminal(doc, status, t) ==
  IF doc.pothole_status = "completed" THEN doc
  ELSE [doc EXCEPT !.pothole_status = status, !.updatedAt = t]

\* The update document of findByIdAndUpdate.
ApplyUpdate(doc, status, t) == [doc EXCEPT !.pothole_status = status, !.updatedAt = t]

\* ------------------------------------------------------------- state
VARIABLES
  now,     \* what Date.now() returns
  nextId,  \* the next ObjectId the driver generates
  db,      \* the potholes collection: _id -> document
  files,   \* the file names present in public/uploads
  pc,      \* per request slot: idle, the await it is parked on, or done
  req,     \* per request slot: the request and the handler's locals
  resp,    \* per request slot: the response sent (when pc is done)
  served   \* the number of requests accepted so far

vars == <<now, nextId, db, files, pc, req, resp, served>>

\* op, and what the handler holds across its awaits: the :id and the
\* pothole_status of the request, whether an image part came with it, the
\* image of the document found (remove), the Date.now() read (update), the
\* document being created (register).  Of what came before the handler: the
\* caller of an administrator-only route (req.user), and the image part that
\* multer refused together with the name it was being stored under.
NoReq ==
  [op |-> "none", id |-> 0, status |-> "", hasImage |-> FALSE,
   image |-> ImageRef(NoFilename), ts |-> 0, doc |-> <<>>,
   actor |-> "", file |-> <<>>]

NoResp == [code |-> 0, success |-> FALSE, message |-> "", data |-> <<>>]

Response(code, success, message, data) ==
  [code |-> code, success |-> success, message |-> message, data |-> data]

Init ==
  /\ now = 0
  /\ served = 0
  /\ nextId = 1
  /\ db = <<>>
  /\ files = {}
  /\ pc = [r \in Reqs |-> "idle"]
  /\ req = [r \in Reqs |-> NoReq]
  /\ resp = [r \in Reqs |-> NoResp]

\* res.status(code).json(...): the handler ends.
Respond(r, q, response) ==
  /\ pc' = [pc EXCEPT ![r] = "done"]
  /\ req' = [req EXCEPT ![r] = q]
  /\ resp' = [resp EXCEPT ![r] = response]

\* The handler parks on an await.
Park(r, q, at) ==
  /\ pc' = [pc EXCEPT ![r] = at]
  /\ req' = [req EXCEPT ![r] = q]
  /\ UNCHANGED resp

\* The server takes a request into the lowest free slot.
Accept(r) ==
  /\ pc[r] = "idle"
  /\ \A r2 \in Reqs : r2 < r => pc[r2] # "idle"
  /\ served < MaxOps
  /\ served' = served + 1

\* Registrations that hold an uploaded file and have not yet been saved.
Registering == {r \in Reqs : pc[r] = "reg_save"}

\* ------------------------------------------------------------- Date.now
\* The clock advances between any two steps, or stays: two reads of
\* Date.now() may return the same value.  It is taken not to run backwards.
Tick ==
  /\ now < MaxClock
  /\ now' = now + 1
  /\ UNCHANGED <<nextId, db, files, pc, req, resp, served>>

\* ------------------------------------------------------------- POST /register
\* The image check never fires.
MissingFileNever(reqFile) == FALSE

\* if (!req.file)
MissingFile(reqFile) == reqFile = <<>>

\* No image part: multer leaves req.file undefined and the handler runs.
RegisterNoImage(r, actor, sub) ==
  /\ Accept(r)
  /\ LET reqFile == <<>>
         q == [NoReq EXCEPT !.op = "register"]
     IN  IF MissingFile(reqFile)
         THEN Respond(r, q, Response(400, FALSE, "Image is required", <<>>))
         ELSE Respond(r, q, Response(500, FALSE, "Cannot read properties of undefined", <<>>))
  /\ UNCHANGED <<now, nextId, db, files>>

\* multer refuses the part: the handler never runs, server.js's error handler
\* answers.  fileFilter refuses before storage is asked for a name.  A part
\* that passes it is streamed to its generated name until limits.fileSize
\* cuts it off, and multer then unlinks that path.
RegisterRejected(r, actor, file, sub, rnd) ==
  /\ Accept(r)
  /\ ~FileFilter(file) \/ TooLarge(file)
  /\ LET filename == IF FileFilter(file) THEN Filename(now, rnd, file) ELSE NoFilename
     IN  /\ files' = IF FileFilter(file) THEN files \ {filename} ELSE files
         /\ Respond(r, [NoReq EXCEPT !.op = "register", !.hasImage = TRUE,
                                     !.image = ImageRef(filename), !.file = <<file>>],
                    Response(500, FALSE, "Something went wrong!", <<>>))
  /\ UNCHANGED <<now, nextId, db>>

\* multer stores the part under a generated name; the handler then runs to
\* its await in Pothole.create: the document is built (defaults applied), and
\* one that fails validation is never saved: the catch answers, the file stays.
RegisterUpload(r, actor, file, sub, rnd) ==
  /\ Accept(r)
  /\ FileFilter(file) /\ ~TooLarge(file)
  /\ (nextId - 1) + Cardinality(Registering) < MaxId
  /\ LET filename == Filename(now, rnd, file)
         reqFile == <<filename>>
         q == [NoReq EXCEPT !.op = "register", !.hasImage = TRUE, !.file = <<file>>]
     IN  /\ files' = files \cup {filename}
         /\ IF MissingFile(reqFile)
            THEN /\ Respond(r, q, Response(400, FALSE, "Image is required", <<>>))
                 /\ UNCHANGED nextId
            ELSE IF SchemaValid(sub)
            THEN /\ nextId' = nextId + 1
                 /\ Park(r, [q EXCEPT !.id = nextId,
                                      !.doc = <<NewDoc(nextId, sub, filename, actor, now)>>],
                         "reg_save")
            ELSE /\ Respond(r, q, Response(500, FALSE, "Pothole validation failed", <<>>))
                 /\ UNCHANGED nextId
  /\ UNCHANGED <<now, db>>

\* Pothole.create, second half: the pre-save hook, the insert, the answer.
RegisterSave(r) ==
  /\ pc[r] = "reg_save"
  /\ LET doc == PreSave(req[r].doc[1], now)
     IN  /\ db' = db @@ (doc._id :> doc)
         /\ Respond(r, [req[r] EXCEPT !.doc = <<>>],
                    Response(201, TRUE, "Pothole registered successfully", <<doc>>))
  /\ UNCHANGED <<now, nextId, files, served>>

\* ------------------------------------------------------------- the collection
\* Pothole.findById: the document in a one-element sequence, or <<>> (null).
FindById(d, id) == IF id \in DOMAIN d THEN <<d[id]>> ELSE <<>>

\* The null check never fires.
IsNullNever(found) == FALSE

\* if (!pothole)
IsNull(found) == found = <<>>

\* The collection without the document of _id id.
DeleteDoc(d, id) == [i \in DOMAIN d \ {id} |-> d[i]]

\* ------------------------------------------------------------- GET /:id
\* Pothole.findById(...).populate(...), and the answer.  A string that is
\* no ObjectId makes the query throw (CastError): the catch answers 500.
Get(r, actor, id) ==
  /\ Accept(r)
  /\ LET q == [NoReq EXCEPT !.op = "get", !.id = id]
         pothole == FindById(db, id)
     IN  IF ~IsObjectId(id)
         THEN Respond(r, q, Response(500, FALSE, "Cast to ObjectId failed", <<>>))
         ELSE IF IsNull(pothole)
         THEN Respond(r, q, Response(404, FALSE, "Pothole not found", <<>>))
         ELSE Respond(r, q, Response(200, TRUE, "", pothole))
  /\ UNCHANGED <<now, nextId, db, files>>

\* ------------------------------------------------------------- PUT /update/:id
\* A route that lets every caller through.
UpdateGuardOpen(actor) == TRUE

\* router.put("/update/:id", verifyToken, isAdmin, ...): the middleware in
\* front of the handler.
UpdateGuard(actor) == IsAdmin(actor)

\* isAdmin refuses the caller: the handler never runs.
UpdateForbidden(r, actor, id, status) ==
  /\ Accept(r)
  /\ ~UpdateGuard(actor)
  /\ Respond(r, [NoReq EXCEPT !.op = "update", !.actor = actor],
             Response(403, FALSE, "Access denied", <<>>))
  /\ UNCHANGED <<now, nextId, db, files>>

\* The check lets every non-empty status through.
StatusAllowedNonEmpty(status) == status # ""

\* The handler's own check of pothole_status.
StatusAllowed(status) == status \in AllowedStatuses

\* runValidators: the schema's enum validator on the update.
EnumValid(status) == status \in StatusEnum

\* The handler up to its await: the status check, then the update is built
\* (Date.now() is read here) and sent.
UpdateIssue(r, actor, id, status) ==
  /\ Accept(r)
  /\ UpdateGuard(actor)
  /\ LET q == [NoReq EXCEPT !.op = "update", !.id = id, !.status = status,
                            !.actor = actor]
     IN  IF ~StatusAllowed(status)
         THEN Respond(r, q, Response(400, FALSE, "Invalid status value", <<>>))
         ELSE Park(r, [q EXCEPT !.ts = now], "upd_apply")
  /\ UNCHANGED <<now, nextId, db, files>>

\* An update that inserts the document it does not find ({ upsert: true }).
FindByIdAndUpdateUpsert(d, id, status, t) ==
  LET found == FindById(d, id)
  IN  IF found = <<>>
      THEN <<[NewDoc(id, SubA, NoFilename, "", t) EXCEPT !.pothole_status = status]>>
      ELSE <<ApplyUpdate(found[1], status, t)>>

\* Pothole.findByIdAndUpdate(id, update, { new: true }): the document as
\* updated, or <<>> (null) when there is none of that _id; it inserts nothing.
FindByIdAndUpdate(d, id, status, t) ==
  LET found == FindById(d, id)
  IN  IF found = <<>> THEN <<>> ELSE <<ApplyUpdate(found[1], status, t)>>

\* findByIdAndUpdate takes effect (one atomic operation of the collection),
\* and the handler answers.
UpdateApply(r) ==
  /\ pc[r] = "upd_apply"
  /\ LET id == req[r].id
         q == [req[r] EXCEPT !.ts = 0]
         pothole == FindByIdAndUpdate(db, id, req[r].status, req[r].ts)
     IN  IF ~IsObjectId(id)
         THEN /\ Respond(r, q, Response(500, FALSE, "Cast to ObjectId failed", <<>>))
              /\ UNCHANGED db
         ELSE IF ~EnumValid(req[r].status)
         THEN /\ Respond(r, q, Response(500, FALSE, "Validation failed", <<>>))
              /\ UNCHANGED db
         ELSE /\ db' = IF pothole = <<>> THEN db ELSE (id :> pothole[1]) @@ db
              /\ IF IsNull(pothole)
                 THEN Respond(r, q, Response(404, FALSE, "Pothole not found", <<>>))
                 ELSE Respond(r, q, Response(200, TRUE,
                                             "Pothole status updated successfully",
                                             pothole))
  /\ UNCHANGED <<now, nextId, files, served>>

\* ------------------------------------------------------------- DELETE /:id
\* router.delete("/:id", verifyToken, isAdmin, ...)
RemoveGuard(actor) == IsAdmin(actor)

\* isAdmin refuses the caller: the handler never runs.
RemoveForbidden(r, actor, id) ==
  /\ Accept(r)
  /\ ~RemoveGuard(actor)
  /\ Respond(r, [NoReq EXCEPT !.op = "remove", !.actor = actor],
             Response(403, FALSE, "Access denied", <<>>))
  /\ UNCHANGED <<now, nextId, db, files>>

\* Pothole.findById: the handler keeps the document it found.
RemoveFind(r, actor, id) ==
  /\ Accept(r)
  /\ RemoveGuard(actor)
  /\ LET q == [NoReq EXCEPT !.op = "remove", !.id = id, !.actor = actor]
         pothole == FindById(db, id)
     IN  IF ~IsObjectId(id)
         THEN Respond(r, q, Response(500, FALSE, "Cast to ObjectId failed", <<>>))
         ELSE IF IsNull(pothole)
         THEN Respond(r, q, Response(404, FALSE, "Pothole not found", <<>>))
         ELSE IF pothole = <<>>
         THEN Respond(r, q, Response(500, FALSE, "Cannot read properties of null", <<>>))
         ELSE Park(r, [q EXCEPT !.image = pothole[1].image], "rem_unlink")
  /\ UNCHANGED <<now, nextId, db, files>>

\* fs.existsSync / fs.unlinkSync, then deleteOne is sent.  unlinkSync may
\* throw (EACCES, EBUSY, ...): fsError; the catch then answers 500.
RemoveUnlink(r, fsError) ==
  /\ pc[r] = "rem_unlink"
  /\ LET imagePath == ImagePath(req[r].image)
     IN  IF imagePath \in files
         THEN IF fsError
              THEN /\ Respond(r, req[r], Response(500, FALSE, "unlink failed", <<>>))
                   /\ UNCHANGED files
              ELSE /\ files' = files \ {imagePath}
                   /\ Park(r, req[r], "rem_delete")
         ELSE /\ Park(r, req[r], "rem_delete")
              /\ UNCHANGED files
  /\ UNCHANGED <<now, nextId, db, served>>

\* pothole.deleteOne() takes effect, and the handler answers.
RemoveDelete(r) ==
  /\ pc[r] = "rem_delete"
  /\ db' = DeleteDoc(db, req[r].id)
  /\ Respond(r, req[r], Response(200, TRUE, "Pothole deleted successfully", <<>>))
  /\ UNCHANGED <<now, nextId, files, served>>

\* ------------------------------------------------------------- the client
\* The response has been taken; the slot serves the next request.
Return(r) ==
  /\ pc[r] = "done"
  /\ pc' = [pc EXCEPT ![r] = "idle"]
  /\ req' = [req EXCEPT ![r] = NoReq]
  /\ resp' = [resp EXCEPT ![r] = NoResp]
  /\ UNCHANGED <<now, nextId, db, files, served>>

Next ==
  \/ Tick
  \/ \E r \in Reqs, actor \in Users, sub \in Submissions : RegisterNoImage(r, actor, sub)
  \/ \E r \in Reqs, actor \in Users, file \in UploadFiles, sub \in Submissions,
        rnd \in 0..MaxRand : RegisterRejected(r, actor, file, sub, rnd)
  \/ \E r \in Reqs, actor \in Users, file \in UploadFiles, sub \in Submissions,
        rnd \in 0..MaxRand : RegisterUpload(r, actor, file, sub, rnd)
  \/ \E r \in Reqs : RegisterSave(r)
  \/ \E r \in Reqs, actor \in Users, id \in ReqIds : Get(r, actor, id)
  \/ \E r \in Reqs, actor \in Users, id \in ReqIds, status \in ReqStatuses :
       UpdateForbidden(r, actor, id, status)
  \/ \E r \in Reqs, actor \in Users, id \in ReqIds, status \in ReqStatuses :
       UpdateIssue(r, actor, id, status)
  \/ \E r \in Reqs : UpdateApply(r)
  \/ \E r \in Reqs, actor \in Users, id \in ReqIds : RemoveForbidden(r, actor, id)
  \/ \E r \in Reqs, actor \in Users, id \in ReqIds : RemoveFind(r, actor, id)
  \/ \E r \in Reqs, fsError \in BOOLEAN : RemoveUnlink(r, fsError)
  \/ \E r \in Reqs : RemoveDelete(r)
  \/ \E r \in Reqs : Return(r)

Spec == Init /\ [][Next]_vars

\* ------------------------------------------------------------- GET /list
\* The listing query on its own: the collection is what registrations and
\* updates have left (any of ListCollections) and nothing writes to it while
\* list requests are served.

\* Reports in the collection at most.
MaxListDocs == 3

Min(S) == CHOOSE x \in S : \A y \in S : x <= y

\* A report as register and updates leave it: created at t, in status status.
ListDoc(id, t, status) ==
  [NewDoc(id, SubA, Filename(t, id, PngFile),
          IF id % 2 = 1 THEN "user1" ELSE "admin1", t)
   EXCEPT !.pothole_status = status]

\* The statuses of the stored reports.
ListDocStatuses == {"pending", "completed"}

\* _ids are generated in the order the documents are built, and createdAt is
\* read from the clock then: createdAt does not decrease along the _ids.
ListCollections ==
  UNION {{[id \in 1..n |-> ListDoc(id, ts[id], st[id])] :
            ts \in {f \in [1..n -> 0..MaxClock] :
                      \A i, j \in 1..n : i < j => f[i] <= f[j]},
            st \in [1..n -> ListDocStatuses]} :
         n \in 0..MaxListDocs}

\* req.query: a parameter is absent (<<>>) or present (<<v>>); the numbers
\* stand for the numeric strings of the query string.
QueryStatuses == {<<>>, <<"pending">>, <<"completed">>}
QueryPages == {<<>>, <<-1>>, <<0>>, <<1>>, <<2>>}
QueryLimits == {<<>>, <<-1>>, <<0>>, <<1>>, <<2>>}

\* const { status, page = 1, limit = 10 } = req.query
Default(param, d) == IF param = <<>> THEN d ELSE param[1]

\* query.pothole_status = status, when status is given
Query(status) == IF status # <<>> THEN <<status[1]>> ELSE <<>>

\* A query that ignores the filter.
MatchesAll(d, query) == DOMAIN d

\* The _ids of the documents that match the query.
Matches(d, query) ==
  {id \in DOMAIN d : query = <<>> \/ d[id].pothole_status = query[1]}

\* The orders of the _ids in S.
Perms(S) ==
  {o \in [1..Cardinality(S) -> S] : \A i, j \in 1..Cardinality(S) : i # j => o[i] # o[j]}

\* .sort({ createdAt: -1 }): createdAt does not increase along the result; the
\* order of documents of equal createdAt is not determined, and may differ
\* from one query to the next.
SortOrders(d, ids) ==
  {o \in Perms(ids) :
     \A i, j \in 1..Cardinality(ids) : i < j => d[o[i]].createdAt >= d[o[j]].createdAt}

\* .limit(n).skip(k) on a sorted result, k >= 0: a limit of 0 is no limit, a
\* negative limit is its absolute value.
SkipLimit(o, skip, limit) ==
  LET n == IF limit = 0 THEN Len(o) ELSE IF limit < 0 THEN 0 - limit ELSE limit
      last == IF skip + n < Len(o) THEN skip + n ELSE Len(o)
  IN  IF skip + 1 > last THEN <<>> ELSE SubSeq(o, skip + 1, last)

\* Math.ceil(count / limit), as res.json writes it: a number, or null (<<>>)
\* for Infinity and NaN (limit 0).
TotalPages(count, limit) ==
  IF limit = 0 THEN <<>>
  ELSE IF limit > 0 THEN <<(count + limit - 1) \div limit>>
  ELSE <<0 - (count \div (0 - limit))>>

ListReq(actor, status, page, limit) ==
  [op |-> "list", actor |-> actor, status |-> status, page |-> page,
   limit |-> limit, potholes |-> <<>>]

ListResponse(code, success, message, data, totalPages, currentPage, totalRecords) ==
  [code |-> code, success |-> success, message |-> message, data |-> data,
   totalPages |-> totalPages, currentPage |-> currentPage,
   totalRecords |-> totalRecords]

ListInit ==
  /\ db \in ListCollections
  /\ now = MaxClock
  /\ served = 0
  /\ nextId = Cardinality(DOMAIN db) + 1
  /\ files = {ImagePath(db[id].image) : id \in DOMAIN db}
  /\ pc = [r \in Reqs |-> "idle"]
  /\ req = [r \in Reqs |-> NoReq]
  /\ resp = [r \in Reqs |-> NoResp]

\* The handler up to the answer of Pothole.find; o is the order the sort
\* produced.  A negative skip makes the query throw: the catch answers 500.
ListFind(r, actor, status, page, limit) ==
  /\ Accept(r)
  /\ LET q == ListReq(actor, status, page, limit)
         query == Query(status)
         skip == (Default(page, 1) - 1) * Default(limit, 10)
     IN  IF skip < 0
         THEN Respond(r, q, ListResponse(500, FALSE, "Skip value must be non-negative",
                                         <<>>, <<>>, <<>>, 0))
         ELSE \E o \in SortOrders(db, Matches(db, query)) :
                LET potholes == SkipLimit(o, skip, Default(limit, 10) * 1)
                IN  Park(r, [q EXCEPT !.potholes = [i \in 1..Len(potholes) |->
                                                     db[potholes[i]]]],
                         "list_count")
  /\ UNCHANGED <<now, nextId, db, files>>

\* A caller that pages through the list asks for the page after the one it
\* asked for last, with the same filter and page size.
ListNextPage(r) ==
  /\ r - 1 \in Reqs
  /\ req[r - 1].op = "list"
  /\ ListFind(r, req[r - 1].actor, req[r - 1].status,
              <<Default(req[r - 1].page, 1) + 1>>, req[r - 1].limit)

\* Pothole.countDocuments answers, and the handler answers.
ListCount(r) ==
  /\ pc[r] = "list_count"
  /\ LET count == Cardinality(Matches(db, Query(req[r].status)))
     IN  Respond(r, req[r],
                 ListResponse(200, TRUE, "", req[r].potholes,
                              TotalPages(count, Default(req[r].limit, 10)),
                              req[r].page, count))
  /\ UNCHANGED <<now, nextId, db, files, served>>

ListNext ==
  \/ \E actor \in Users, status \in QueryStatuses, page \in QueryPages,
        limit \in QueryLimits : ListFind(1, actor, status, page, limit)
  \/ \E r \in Reqs : ListNextPage(r)
  \/ \E r \in Reqs : ListCount(r)

ListSpec == ListInit /\ [][ListNext]_vars

\* ------------------------------------------------------------- upload.fileFilter
\* The register route on its own, fed image parts of every declared type and
\* file name of FilterMimetypes and FilterNames.
FilterMimetypes ==
  {<<"i", "m", "a", "g", "e", "/", "p", "n", "g">>,
   <<"i", "m", "a", "g", "e", "/", "j", "p", "e", "g">>,
   <<"i", "m", "a", "g", "e", "/", "j", "p", "g">>,
   <<"i", "m", "a", "g", "e", "/", "g", "i", "f">>,
   <<"i", "m", "a", "g", "e", "/", "a", "p", "n", "g">>,
   <<"t", "e", "x", "t", "/", "p", "l", "a", "i", "n">>}

FilterNames ==
  {<<"a", ".", "p", "n", "g">>,
   <<"a", ".", "P", "N", "G">>,
   <<"a", ".", "j", "p", "g">>,
   <<"a", ".", "j", "p", "e", "g">>,
   <<"a", ".", "g", "i", "f">>,
   <<"a", ".", "a", "p", "n", "g">>,
   <<"a", ".", "p", "n", "g", ".", "g", "i", "f">>,
   <<"p", "n", "g">>}

FilterFiles ==
  {[originalname |-> n, mimetype |-> m, size |-> 1024] :
     n \in FilterNames, m \in FilterMimetypes}

FilterNext ==
  \/ \E r \in Reqs, actor \in Users, file \in FilterFiles, rnd \in 0..MaxRand :
       RegisterRejected(r, actor, file, SubA, rnd)
  \/ \E r \in Reqs, actor \in Users, file \in FilterFiles, rnd \in 0..MaxRand :
       RegisterUpload(r, actor, file, SubA, rnd)
  \/ \E r \in Reqs : RegisterSave(r)

FilterSpec == Init /\ [][FilterNext]_vars

\* ------------------------------------------------------------- properties
\* The three statuses of the specification.
ClaimStatuses == {"pending", "inprocess", "completed"}

\* C1: in every reachable state every stored report's status is one of
\* pending, inprocess, completed.
C1_StatusAlwaysInEnum ==
  \A id \in DOMAIN db : db[id].pothole_status \in ClaimStatuses

\* A report was moved to completed and an update asking for "archived" on it
\* has been answered.
C1_Witness ==
  \E id \in DOMAIN db, r \in Reqs :
    /\ db[id].pothole_status = "completed"
    /\ pc[r] = "done" /\ req[r].op = "update"
    /\ req[r].id = id /\ req[r].status = "archived"

\* C2: an update by an administrator whose status is none of the three is
\* answered at once with the validation error (400) and leaves the collection
\* as it was, whatever the id; an update with one of the three on an existing
\* id succeeds; and no update succeeds with any other status.
C2_UpdateSucceedsIffAllowed ==
  [][\A r \in Reqs :
       /\ (/\ pc[r] = "idle" /\ pc'[r] # "idle"
           /\ req'[r].op = "update" /\ resp'[r].code # 403
           /\ req'[r].status \notin ClaimStatuses)
          => (/\ pc'[r] = "done"
              /\ resp'[r].code = 400 /\ ~resp'[r].success
              /\ db' = db)
       /\ (/\ pc[r] = "upd_apply" /\ pc'[r] = "done"
           /\ req[r].id \in DOMAIN db
           /\ req[r].status \in ClaimStatuses)
          => (resp'[r].success /\ resp'[r].code = 200)
       /\ (pc'[r] = "done" /\ req'[r].op = "update" /\ resp'[r].success)
          => req'[r].status \in ClaimStatuses]_vars

\* updateStatus(id, "archived") on an existing report was refused with 400.
C2_Witness ==
  \E r \in Reqs :
    /\ pc[r] = "done" /\ req[r].op = "update" /\ req[r].status = "archived"
    /\ req[r].id \in DOMAIN db
    /\ resp[r].code = 400

\* C3: an update with an allowed status t that finds its report, in whatever
\* allowed status s, succeeds and leaves the report in status t.
C3_AnyStatusToAnyStatus ==
  [][\A r \in Reqs :
       (/\ pc[r] = "upd_apply" /\ pc'[r] = "done"
        /\ req[r].id \in DOMAIN db
        /\ db[req[r].id].pothole_status \in ClaimStatuses
        /\ req[r].status \in ClaimStatuses)
       => (/\ resp'[r].success
           /\ req[r].id \in DOMAIN db'
           /\ db'[req[r].id].pothole_status = req[r].status)]_vars

\* Two updates of one report succeeded, to completed and to pending, and the
\* report is pending: it went from completed back to pending.
C3_Witness ==
  \E r1, r2 \in Reqs :
    /\ pc[r1] = "done" /\ req[r1].op = "update" /\ resp[r1].success
    /\ pc[r2] = "done" /\ req[r2].op = "update" /\ resp[r2].success
    /\ req[r1].id = req[r2].id
    /\ req[r1].status = "completed" /\ req[r2].status = "pending"
    /\ req[r1].id \in DOMAIN db
    /\ db[req[r1].id].pothole_status = "pending"

C5_NoImageRejected ==
  [][\A r \in Reqs :
       (/\ pc[r] = "idle" /\ pc'[r] # "idle"
        /\ req'[r].op = "register" /\ ~req'[r].hasImage)
       => (/\ pc'[r] = "done"
           /\ resp'[r].code = 400 /\ ~resp'[r].success
           /\ db' = db /\ files' = files /\ nextId' = nextId)]_vars

\* A register request without an image was refused while a report is stored.
C5_Witness ==
  \E r \in Reqs :
    /\ pc[r] = "done" /\ req[r].op = "register" /\ ~req[r].hasImage
    /\ resp[r].code = 400
    /\ DOMAIN db # {}

\* C6: a stored report changes only by a successful update of it, which
\* leaves every field but status and updatedAt as it was and does not
\* decrease updatedAt.
C6_UpdateFrame ==
  [][\A id \in DOMAIN db \cap DOMAIN db' :
       /\ db'[id].createdAt = db[id].createdAt
       /\ db'[id].image = db[id].image
       /\ db'[id].reportedBy = db[id].reportedBy
       /\ db'[id].gps = db[id].gps
       /\ db'[id].distance = db[id].distance
       /\ db'[id].vehicle_name = db[id].vehicle_name
       /\ db'[id].vehicle_ground_level = db[id].vehicle_ground_level
       /\ db'[id].updatedAt >= db[id].updatedAt
       /\ db'[id] # db[id]
          => \E r \in Reqs :
               /\ pc[r] = "upd_apply" /\ pc'[r] = "done"
               /\ req[r].id = id /\ resp'[r].success]_vars

\* C7: once a remove has reported success, the report is not in the
\* collection and the file its image reference named is not in the uploads
\* directory.
C7_RemovedRecordAndFileGone ==
  \A r \in Reqs :
    (pc[r] = "done" /\ req[r].op = "remove" /\ resp[r].success)
    => (/\ req[r].id \notin DOMAIN db
        /\ ImagePath(req[r].image) \notin files)

C9_StoredImageExists ==
  \A id \in DOMAIN db : ImagePath(db[id].image) \in files

\* C10: a remove that found its report does not fail at the deletion of the
\* image file; it goes on to delete the record and reports success.
C10_UnlinkFailureIsNoError ==
  [][\A r \in Reqs :
       /\ pc[r] = "rem_unlink" => pc'[r] \in {"rem_unlink", "rem_delete"}
       /\ (pc[r] = "rem_delete" /\ pc'[r] = "done")
          => (resp'[r].success /\ req[r].id \notin DOMAIN db')]_vars

\* The allow-list of the specification, and membership of an upload in it: the
\* subtype of the declared MIME type and the extension of the file name (what
\* follows its last dot, in lower case) are both on the list.
ClaimAllowList == {<<"j", "p", "e", "g">>, <<"j", "p", "g">>, <<"p", "n", "g">>}

ClaimSubtype(mimetype) ==
  LET slashes == {i \in 1..Len(mimetype) : mimetype[i] = "/"}
  IN  IF slashes = {} THEN <<>> ELSE SubSeq(mimetype, Max(slashes) + 1, Len(mimetype))

ClaimTypeAllowed(file) ==
  LET ext == Extname(file.originalname)
  IN  /\ ClaimSubtype(file.mimetype) \in ClaimAllowList
      /\ ext # <<>>
      /\ ToLowerCase(Tail(ext)) \in ClaimAllowList

\* C11: a register request whose image part is of a disallowed type or larger
\* than 5 MiB is answered at once with a failure; it creates no record (the
\* collection and the id generator are as before, no insert is pending), it
\* adds no file, and no file of the name the part was being stored under is in
\* the uploads directory.
C11_RejectedUploadLeavesNothing ==
  [][\A r \in Reqs :
       (/\ pc[r] = "idle" /\ pc'[r] # "idle"
        /\ req'[r].op = "register" /\ req'[r].file # <<>>
        /\ \/ ~ClaimTypeAllowed(req'[r].file[1])
           \/ req'[r].file[1].size > 5 * 1024 * 1024)
       => (/\ pc'[r] = "done" /\ ~resp'[r].success
           /\ db' = db /\ nextId' = nextId
           /\ files' \subseteq files
           /\ ImagePath(req'[r].image) \notin files')]_vars

\* A 6 MiB image and an image/gif were both refused while a report is stored.
C11_Witness ==
  \E r1, r2 \in Reqs :
    /\ pc[r1] = "done" /\ req[r1].op = "register" /\ req[r1].file = <<BigFile>>
    /\ pc[r2] = "done" /\ req[r2].op = "register" /\ req[r2].file = <<GifFile>>
    /\ ~resp[r1].success /\ ~resp[r2].success
    /\ DOMAIN db # {}

\* C15: no two reports, stored or about to be stored, have the same image
\* reference.
C15_ImageRefsDistinct ==
  LET docs == {db[id] : id \in DOMAIN db} \cup {req[r].doc[1] : r \in Registering}
  IN  \A d1, d2 \in docs : d1._id # d2._id => d1.image # d2.image

\* C16: a stored report changes its status or leaves the collection only by
\* the last step of an update or a remove whose caller has the role admin; an
\* update or a remove of any other caller is answered 403 at once and touches
\* neither the collection nor the uploads directory; register and get refuse
\* no caller for its role.
C16_OnlyAdminChangesOrDeletes ==
  [][/\ \A id \in DOMAIN db :
          (id \notin DOMAIN db' \/ db'[id].pothole_status # db[id].pothole_status)
          => \E r \in Reqs :
               /\ pc[r] \in {"upd_apply", "rem_delete"} /\ pc'[r] = "done"
               /\ req[r].id = id
               /\ Role(req[r].actor) = "admin"
     /\ \A r \in Reqs :
          /\ (/\ pc[r] = "idle" /\ pc'[r] # "idle"
              /\ req'[r].op \in {"update", "remove"}
              /\ Role(req'[r].actor) # "admin")
             => (/\ pc'[r] = "done" /\ resp'[r].code = 403
                 /\ db' = db /\ files' = files)
          /\ (pc'[r] = "done" /\ req'[r].op \in {"register", "get"})
             => resp'[r].code # 403]_vars

\* A report registered by an actor of role user is stored, still pending, and
\* that role's update of it and remove of it have both been refused.
C16_Witness ==
  \E id \in DOMAIN db, r1, r2 \in Reqs :
    /\ Role(db[id].reportedBy) = "user" /\ db[id].pothole_status = "pending"
    /\ pc[r1] = "done" /\ req[r1].op = "update" /\ Role(req[r1].actor) = "user"
    /\ pc[r2] = "done" /\ req[r2].op = "remove" /\ Role(req[r2].actor) = "user"
    /\ resp[r1].code = 403 /\ resp[r2].code = 403

\* C17: an image part within the size limit is accepted (stored, and the
\* registration goes on to create its report) if and only if its declared
\* MIME type and its file name extension are both on the allow-list; of a
\* part that is refused nothing is in the uploads directory.
C17_AcceptedIffOnAllowList ==
  \A r \in Reqs :
    (/\ pc[r] # "idle" /\ req[r].op = "register" /\ req[r].file # <<>>
     /\ req[r].file[1].size <= 5 * 1024 * 1024)
    => LET accepted == pc[r] = "reg_save" \/ resp[r].success
       IN  /\ accepted <=> ClaimTypeAllowed(req[r].file[1])
           /\ ~accepted => ImagePath(req[r].image) \notin files

\* C18: in every reachable state every stored report has updatedAt at or
\* after createdAt.
C18_UpdatedAtNotBeforeCreatedAt ==
  \A id \in DOMAIN db : db[id].updatedAt >= db[id].createdAt

\* The report of this _id was stored and has been deleted: the _id has been
\* generated, no insert of it is pending and it is not in the collection.
Removed(id) ==
  /\ id < nextId
  /\ id \notin DOMAIN db
  /\ \A r \in Reqs : ~(pc[r] = "reg_save" /\ req[r].id = id)

\* C20: a report that has been removed is in the collection in no later
\* state; an update of it that takes effect after the deletion answers 404,
\* a get of it answers 404, and neither these nor a second remove that was
\* under way change the collection.
C20_RemovedNeverReappears ==
  [][\A id \in ObjectIds :
       Removed(id)
       => /\ id \notin DOMAIN db'
          /\ \A r \in Reqs :
               /\ (pc[r] = "upd_apply" /\ pc'[r] = "done" /\ req[r].id = id)
                  => (resp'[r].code = 404 /\ ~resp'[r].success /\ db' = db)
               /\ (pc[r] = "rem_delete" /\ pc'[r] = "done" /\ req[r].id = id)
                  => db' = db
               /\ (/\ pc[r] = "idle" /\ pc'[r] = "done"
                   /\ req'[r].op \in {"get", "remove"} /\ req'[r].id = id
                   /\ resp'[r].code # 403)
                  => (resp'[r].code = 404 /\ db' = db)]_vars

\* A remove of a report has succeeded, the report is gone, and an update of
\* it that was sent while it was still stored has not yet taken effect.
C20_Witness ==
  \E r1, r2 \in Reqs :
    /\ pc[r1] = "done" /\ req[r1].op = "remove" /\ resp[r1].success
    /\ Removed(req[r1].id)
    /\ pc[r2] = "upd_apply" /\ req[r2].id = req[r1].id

\* A list request has been answered.
ListDone(r) == pc[r] = "done" /\ req[r].op = "list"

\* The items of the answers in slots 1..k, one after the other.
RECURSIVE ScanItems(_)
ScanItems(k) == IF k = 0 THEN <<>> ELSE ScanItems(k - 1) \o resp[k].data

\* C12: with N stored reports and nothing written meanwhile, a list without
\* filter for page 1 with page size P >= 1 reports totalRecords N and
\* totalPages ceil(N/P), and the items of pages 1..ceil(N/P), put one after
\* the other, are the N reports, each exactly once.
C12_PagesCoverEachRecordOnce ==
  (ListDone(1) /\ req[1].status = <<>>
   /\ Default(req[1].page, 1) = 1 /\ Default(req[1].limit, 10) >= 1)
  => LET P == Default(req[1].limit, 10)
         N == Cardinality(DOMAIN db)
         k == (N + P - 1) \div P
     IN  /\ resp[1].success
         /\ resp[1].totalRecords = N
         /\ resp[1].totalPages = <<k>>
         /\ (k <= MaxReq /\ \A i \in 1..k : ListDone(i))
            => (/\ Len(ScanItems(k)) = N
                /\ {ScanItems(k)[i] : i \in 1..Len(ScanItems(k))}
                   = {db[id] : id \in DOMAIN db})

\* C13: the items of a page are in createdAt-descending order and a report
\* registered later (of the greater _id) comes before one registered
\* earlier; three reports listed at the default page size come as 3, 2, 1
\* with totalRecords 3 and totalPages 1.
C13_LaterRegisteredFirst ==
  \A r \in Reqs :
    (ListDone(r) /\ resp[r].success)
    => LET data == resp[r].data
       IN  /\ \A i, j \in 1..Len(data) :
                i < j => (/\ data[i].createdAt >= data[j].createdAt
                          /\ data[i]._id > data[j]._id)
           /\ (/\ Cardinality(DOMAIN db) = 3 /\ req[r].status = <<>>
               /\ Default(req[r].page, 1) = 1 /\ req[r].limit = <<>>)
              => (/\ [i \in 1..Len(data) |-> data[i]._id] = <<3, 2, 1>>
                  /\ resp[r].totalRecords = 3
                  /\ resp[r].totalPages = <<1>>)

\* C14: a list with page < 1 or page size < 1 is answered as the same call
\* with that parameter set to 1 would be: with success, the items that follow
\* the first (page-1)*pageSize of the sorted reports, pageSize at most, and
\* totalPages = ceil(totalRecords / pageSize).
C14_NonPositiveTreatedAsOne ==
  \A r \in Reqs :
    (ListDone(r) /\ (Default(req[r].page, 1) < 1 \/ Default(req[r].limit, 10) < 1))
    => LET page == IF Default(req[r].page, 1) < 1 THEN 1 ELSE Default(req[r].page, 1)
           pageSize == IF Default(req[r].limit, 10) < 1 THEN 1
                       ELSE Default(req[r].limit, 10)
           ids == {id \in DOMAIN db :
                     req[r].status = <<>> \/ db[id].pothole_status = req[r].status[1]}
           total == Cardinality(ids)
       IN  /\ resp[r].success
           /\ resp[r].totalRecords = total
           /\ resp[r].totalPages = <<(total + pageSize - 1) \div pageSize>>
           /\ Len(resp[r].data) =
                Min({pageSize, Max({0, total - (page - 1) * pageSize})})
           /\ \A i \in 1..Len(resp[r].data) : resp[r].data[i]._id \in ids

\* C19: a list that succeeds with a status filter s returns only reports of
\* status s and totalRecords is the number of stored reports of status s;
\* without a filter it ranges over all stored reports.  Whoever calls and
\* whoever registered: the items are distinct stored reports of that range,
\* as many as the page has room for.
C19_FilterSelectsStatus ==
  \A r \in Reqs :
    (ListDone(r) /\ resp[r].success)
    => LET data == resp[r].data
           range == IF req[r].status = <<>> THEN DOMAIN db
                    ELSE {id \in DOMAIN db : db[id].pothole_status = req[r].status[1]}
           page == Default(req[r].page, 1)
           pageSize == Default(req[r].limit, 10)
       IN  /\ resp[r].totalRecords = Cardinality(range)
           /\ \A i \in 1..Len(data) :
                /\ data[i]._id \in range
                /\ data[i] = db[data[i]._id]
           /\ \A i, j \in 1..Len(data) : i # j => data[i] # data[j]
           /\ (page >= 1 /\ pageSize >= 1)
              => Len(data) =
                   Min({pageSize, Max({0, Cardinality(range) - (page - 1) * pageSize})})

\* A list filtered by pending returned a report that another actor than the
\* caller registered, while a completed report is stored; all the pending
\* reports are on the page.
C19_Witness ==
  \E r \in Reqs :
    /\ ListDone(r) /\ resp[r].success
    /\ req[r].status = <<"pending">>
    /\ \E id \in DOMAIN db : db[id].pothole_status = "completed"
    /\ \E i \in 1..Len(resp[r].data) : resp[r].data[i].reportedBy # req[r].actor
    /\ Len(resp[r].data) = 2 /\ resp[r].totalRecords = 2

====
